---- MODULE Spec2Model ----
(***************************************************************************)
(* Model of facilito.async_api.AsyncFacilito: the session facade that owns *)
(* a playwright driver, a browser and one browsing context, and exposes    *)
(* login / logout / fetch_unit / fetch_course / download / set_cookies.    *)
(*                                                                         *)
(* Every method is one action.  The calls a method makes on its            *)
(* collaborators (playwright, collectors, downloaders, the session file)   *)
(* can each succeed or raise; the outcome of every such call is an input   *)
(* of the action (the record e), chosen from a small set.  A method body   *)
(* is an operator from the facade's state and e to an outcome record:      *)
(*   exc      the exception leaving the body ("none": normal return)       *)
(*   auth     self.authenticated afterwards                                *)
(*   file     the session file afterwards                                  *)
(*   cookies  the cookies of the browsing context afterwards               *)
(*   log      the collaborator calls made, in order, with their results    *)
(*   got      the records the collectors returned                          *)
(*   dls      the downloader invocations made, with their arguments        *)
(*   page     the page the call opened: "none", "open" or "closed"         *)
(*   ret      the value returned                                           *)
(***************************************************************************)
EXTENDS Integers, Sequences, FiniteSets

VARIABLES phase, authenticated, driver, browser, context, cookies,
          sessionFile, last, loggedOut

\* loggedOut is a history variable: a logout of this instance has removed the
\* session file while Authenticated was true.
vars == <<phase, authenticated, driver, browser, context, cookies,
          sessionFile, last, loggedOut>>

\* ---------------------------------------------------------------- bounds
MaxSlugLen == 1
NumCookies == 1

\* ---------------------------------------------------------------- values
CookieIds == 1..NumCookies

SlugChars == {"a", "b"}

Slugs == UNION {[1..n -> SlugChars] : n \in 1..MaxSlugLen}

\* **kwargs of download: an open bag of options.
NoOpts == "{}"

Options == {NoOpts, "{dir}"}

NoFile == [exists |-> FALSE, cookies |-> {}]

SessionFiles == {NoFile} \cup {[exists |-> TRUE, cookies |-> c] : c \in SUBSET CookieIds}

NoRet == [type |-> "none", slug |-> <<>>]

Ev(call, res) == [call |-> call, res |-> res]

\* ok / raise as the result of a collaborator call
Res(ok) == IF ok THEN "ok" ELSE "raise"

\* The facade's own error kinds (spec, section 7).
DomainErrors == {"LoginError", "AuthRequired", "RequestFailed", "InvalidURL"}

\* ------------------------------------------------------- utils decorators
\* utils.try_except_request: any underlying exception is caught and re-raised
\* as the single request-failed kind; the facade's own kinds reach the caller.
try_except_request(r) ==
    IF r.exc = "none" \/ r.exc \in DomainErrors
    THEN r
    ELSE [r EXCEPT !.exc = "RequestFailed"]

\* The outcome of a call that raises exc before doing anything.
Raise(s, exc) ==
    [exc |-> exc, auth |-> s.auth, file |-> s.file, cookies |-> s.cookies,
     log |-> <<>>, got |-> <<>>, dls |-> <<>>, page |-> "none", ret |-> NoRet]

\* utils.save_state(context, SESSION_FILE): the context's storage state is
\* written to the session file.
save_state(c) == [exists |-> TRUE, cookies |-> c]

\* utils.load_state(context, SESSION_FILE): the session file, if present, is
\* restored into the context; an absent file is no error.
load_state(c, f) == IF f.exists THEN c \cup f.cookies ELSE c

\* ------------------------------------------------------------ _set_profile
\* The outcomes of the calls _set_profile makes: self.page, page.goto,
\* text_content and page.close.  A call that is not reached has no outcome of
\* its own (it is written as failed).
ProbeEnv ==
    {e \in [open : BOOLEAN, goto : BOOLEAN,
            text : {"text", "empty", "null", "raise"}, close : BOOLEAN] :
        /\ ~e.open => ~e.goto /\ ~e.close
        /\ ~e.goto => e.text = "raise"}

\* The body of _set_profile, lines 137-156.
set_profile_body(s, e) ==
    LET log1 == <<Ev("new_page", Res(e.open))>>
        log2 == IF e.open THEN log1 \o <<Ev("goto", Res(e.goto))>> ELSE log1
        read == e.open /\ e.goto
        log3 == IF read THEN log2 \o <<Ev("text_content", e.text)>> ELSE log2
        \* if welcome_message: self.authenticated = True
        auth == IF read /\ e.text = "text" THEN TRUE ELSE s.auth
        \* except Exception: pass.  finally: await page.close(), where page is
        \* unbound when self.page raised.
        log4 == IF e.open THEN log3 \o <<Ev("page.close", Res(e.close))>> ELSE log3
    IN  [exc |-> IF ~e.open THEN "UnboundLocalError"
                 ELSE IF ~e.close THEN "Raw" ELSE "none",
         auth |-> auth, file |-> s.file, cookies |-> s.cookies,
         log |-> log4, got |-> <<>>, dls |-> <<>>,
         page |-> IF ~e.open THEN "none" ELSE IF e.close THEN "closed" ELSE "open",
         ret |-> NoRet]

\* The probe taking a failure to read the greeting as "not authenticated".
set_profile_reset(s, e) ==
    try_except_request(
        [set_profile_body(s, e) EXCEPT
            !.auth = e.open /\ e.goto /\ e.text = "text"])

\* @try_except_request async def _set_profile, lines 135-136.
set_profile(s, e) == try_except_request(set_profile_body(s, e))

\* ------------------------------------------------------------------ login
\* The outcomes of the calls login makes: self.page, page.goto,
\* wait_for_selector, save_state and page.close.
LoginEnv ==
    {e \in [open : BOOLEAN, goto : BOOLEAN,
            wait : {"ok", "null", "raise"}, save : BOOLEAN, close : BOOLEAN] :
        /\ ~e.open => ~e.goto /\ ~e.close
        /\ ~e.goto => e.wait = "raise"
        /\ e.wait # "ok" => ~e.save}

\* The body of login, lines 58-83.
login_body(s, e) ==
    LET log1 == <<Ev("new_page", Res(e.open))>>
        log2 == IF e.open THEN log1 \o <<Ev("goto", Res(e.goto))>> ELSE log1
        waited == e.open /\ e.goto
        log3 == IF waited THEN log2 \o <<Ev("wait_for_selector", e.wait)>> ELSE log2
        greeted == waited /\ e.wait = "ok"
        \* self.authenticated = True, then save_state
        auth == IF greeted THEN TRUE ELSE s.auth
        log4 == IF greeted THEN log3 \o <<Ev("save_state", Res(e.save))>> ELSE log3
        saved == greeted /\ e.save
        \* except Exception: raise LoginError()
        tryExc == IF saved THEN "none" ELSE "LoginError"
        \* finally: await page.close()
        log5 == IF e.open THEN log4 \o <<Ev("page.close", Res(e.close))>> ELSE log4
    IN  [exc |-> IF ~e.open THEN "UnboundLocalError"
                 ELSE IF ~e.close THEN "Raw" ELSE tryExc,
         auth |-> auth,
         file |-> IF saved THEN save_state(s.cookies) ELSE s.file,
         cookies |-> s.cookies,
         log |-> log5, got |-> <<>>, dls |-> <<>>,
         page |-> IF ~e.open THEN "none" ELSE IF e.close THEN "closed" ELSE "open",
         ret |-> NoRet]

\* login with the assignment of line 75 left out.
login_noflag(s, e) ==
    try_except_request([login_body(s, e) EXCEPT !.auth = s.auth])

\* @try_except_request async def login, lines 56-57.
login(s, e) == try_except_request(login_body(s, e))

\* ----------------------------------------------------------------- logout
\* The outcome of SESSION_FILE.unlink(missing_ok=True): on an absent file it
\* raises FileNotFoundError, which missing_ok suppresses; on a file that
\* exists it can raise for another reason (e.g. permissions).
LogoutEnv(s) == IF s.file.exists THEN BOOLEAN ELSE {TRUE}

\* logout, lines 87-88.
logout_body(s, e) ==
    [exc |-> IF e THEN "none" ELSE "Raw",
     auth |-> s.auth,
     file |-> IF e THEN NoFile ELSE s.file,
     cookies |-> s.cookies,
     log |-> <<Ev("unlink", Res(e))>>, got |-> <<>>, dls |-> <<>>, page |-> "none",
     ret |-> NoRet]

\* logout that also clears the flag.
logout_resets_flag(s, e) ==
    try_except_request([logout_body(s, e) EXCEPT !.auth = FALSE])

\* @try_except_request async def logout, lines 85-86.
logout(s, e) == try_except_request(logout_body(s, e))

\* --------------------------------------------------------------- auth gate
\* utils.login_required: if Authenticated is false at call time the call
\* fails with the authentication-required error before the wrapped body runs.
login_required(s, r) == IF ~s.auth THEN Raise(s, "AuthRequired") ELSE r

\* ------------------------------------------------------------- collectors
UnitTypes == {"video", "lecture", "quiz"}

\* models.TypeUnit.VIDEO
TypeUnit_VIDEO == "video"

Units == [type : UnitTypes, slug : Slugs]

Courses == [type : {"course"}, slug : Slugs]

\* A collector either raises or returns a record.
NoRec == [type |-> "none", slug |-> <<>>]

FetchUnitEnv == {[fetch |-> FALSE, rec |-> NoRec]} \cup [fetch : {TRUE}, rec : Units]

FetchCourseEnv == {[fetch |-> FALSE, rec |-> NoRec]} \cup [fetch : {TRUE}, rec : Courses]

\* return await collectors.fetch_unit(self.context, url), line 93.
fetch_unit_body(s, url, e) ==
    [exc |-> IF e.fetch THEN "none" ELSE "Raw",
     auth |-> s.auth, file |-> s.file, cookies |-> s.cookies,
     log |-> <<Ev("collectors.fetch_unit", Res(e.fetch))>>,
     got |-> IF e.fetch THEN <<e.rec>> ELSE <<>>, dls |-> <<>>,
     page |-> "none",
     ret |-> IF e.fetch THEN e.rec ELSE NoRet]

\* fetch_unit with the decorator of line 91 left out.
fetch_unit_nogate(s, url, e) == try_except_request(fetch_unit_body(s, url, e))

\* @try_except_request @login_required async def fetch_unit, lines 90-93.
fetch_unit(s, url, e) ==
    try_except_request(login_required(s, fetch_unit_body(s, url, e)))

\* return await collectors.fetch_course(self.context, url), line 98.
fetch_course_body(s, url, e) ==
    [exc |-> IF e.fetch THEN "none" ELSE "Raw",
     auth |-> s.auth, file |-> s.file, cookies |-> s.cookies,
     log |-> <<Ev("collectors.fetch_course", Res(e.fetch))>>,
     got |-> IF e.fetch THEN <<e.rec>> ELSE <<>>, dls |-> <<>>,
     page |-> "none",
     ret |-> IF e.fetch THEN e.rec ELSE NoRet]

\* @try_except_request @login_required async def fetch_course, lines 95-98.
fetch_course(s, url, e) ==
    try_except_request(login_required(s, fetch_course_body(s, url, e)))

\* ---------------------------------------------------------- URL classifier
\* A URL is its path, split at "/": <<"videos", "1-a">> is /videos/1-a.
URLs == {<<"videos", "1-a">>, <<"lectures", "1-a">>, <<"quizzes", "1-a">>,
         <<"courses", "abc">>, <<"courses">>, <<"example.com">>, <<>>}

is_video(url) == Len(url) = 2 /\ url[1] = "videos"

is_lecture(url) == Len(url) = 2 /\ url[1] = "lectures"

is_quiz(url) == Len(url) = 2 /\ url[1] = "quizzes"

is_course(url) == Len(url) = 2 /\ url[1] = "courses"

\* ---------------------------------------------------------------- download
MP4 == <<".", "m", "p", "4">>

MHTML == <<".", "m", "h", "t", "m", "l">>

\* Path(unit.slug + extension): the slug alphabet holds no path separator, so
\* the path's text is the concatenation.
Path(str) == str

\* The outcomes of the calls download makes for url: the collector's, and
\* the downloader's when the collector returned.
DownloadEnv(url) ==
    IF is_video(url) \/ is_lecture(url) \/ is_quiz(url)
    THEN [fetch : FetchUnitEnv, dl : BOOLEAN]
    ELSE IF is_course(url)
    THEN [fetch : FetchCourseEnv, dl : BOOLEAN]
    ELSE {[fetch |-> [fetch |-> FALSE, rec |-> NoRec], dl |-> FALSE]}

\* One downloader invocation: the function, the record, the destination and
\* the keyword options it was given.
Dl(fn, rec, dest, opts) == [fn |-> fn, rec |-> rec, dest |-> dest, opts |-> opts]

\* The unit branch with the extension of line 111 fixed to ".mp4".
download_unit_branch_mp4(s, url, opts, e) ==
    LET f == fetch_unit(s, url, e.fetch)
        unit == f.ret
    IN  IF f.exc # "none"
        THEN f
        ELSE [f EXCEPT !.exc = IF e.dl THEN "none" ELSE "Raw",
                       !.log = f.log \o <<Ev("download_unit", Res(e.dl))>>,
                       !.dls = <<Dl("download_unit", unit,
                                    Path(unit.slug \o MP4), opts)>>,
                       !.ret = NoRet]

\* The unit branch with the downloader's failure swallowed.
download_unit_branch_quiet(s, url, opts, e) ==
    LET f == fetch_unit(s, url, e.fetch)
        unit == f.ret
        extension == IF unit.type = TypeUnit_VIDEO THEN MP4 ELSE MHTML
    IN  IF f.exc # "none"
        THEN f
        ELSE [f EXCEPT !.log = f.log \o <<Ev("download_unit", Res(e.dl))>>,
                       !.dls = <<Dl("download_unit", unit,
                                    Path(unit.slug \o extension), opts)>>,
                       !.ret = NoRet]

\* The video / lecture / quiz branch of download, lines 110-117.
download_unit_branch(s, url, opts, e) ==
    LET f == fetch_unit(s, url, e.fetch)
        unit == f.ret
        extension == IF unit.type = TypeUnit_VIDEO THEN MP4 ELSE MHTML
    IN  IF f.exc # "none"
        THEN f
        ELSE [f EXCEPT !.exc = IF e.dl THEN "none" ELSE "Raw",
                       !.log = f.log \o <<Ev("download_unit", Res(e.dl))>>,
                       !.dls = <<Dl("download_unit", unit,
                                    Path(unit.slug \o extension), opts)>>,
                       !.ret = NoRet]

\* The course branch with the course fetched twice.
download_course_branch_twice(s, url, opts, e) ==
    LET f == fetch_course(s, url, e.fetch)
        course == f.ret
    IN  IF f.exc # "none"
        THEN f
        ELSE [f EXCEPT !.exc = IF e.dl THEN "none" ELSE "Raw",
                       !.log = f.log \o f.log
                               \o <<Ev("download_course", Res(e.dl))>>,
                       !.got = f.got \o f.got,
                       !.dls = <<Dl("download_course", course, <<>>, opts)>>,
                       !.ret = NoRet]

\* The course branch of download, lines 120-121.
download_course_branch(s, url, opts, e) ==
    LET f == fetch_course(s, url, e.fetch)
        course == f.ret
    IN  IF f.exc # "none"
        THEN f
        ELSE [f EXCEPT !.exc = IF e.dl THEN "none" ELSE "Raw",
                       !.log = f.log \o <<Ev("download_course", Res(e.dl))>>,
                       !.dls = <<Dl("download_course", course, <<>>, opts)>>,
                       !.ret = NoRet]

\* The body of download with "else" for the "elif is_course(url)" of line 119.
download_body_else_course(s, url, opts, e) ==
    IF is_video(url) \/ is_lecture(url) \/ is_quiz(url)
    THEN download_unit_branch(s, url, opts, e)
    ELSE download_course_branch(s, url, opts, e)

\* The body of download, lines 103-126.
download_body(s, url, opts, e) ==
    IF is_video(url) \/ is_lecture(url) \/ is_quiz(url)
    THEN download_unit_branch(s, url, opts, e)
    ELSE IF is_course(url)
    THEN download_course_branch(s, url, opts, e)
    ELSE Raise(s, "InvalidURL")

\* @try_except_request @login_required async def download, lines 100-102.
download(s, url, opts, e) ==
    try_except_request(login_required(s, download_body(s, url, opts, e)))

\* -------------------------------------------------------------- set_cookies
\* The cookie export at path: missing, not JSON, or a JSON array of cookies.
CookieLists == UNION {[1..n -> CookieIds] : n \in 1..NumCookies}

NoProbeEnv == [open |-> FALSE, goto |-> FALSE, text |-> "raise", close |-> FALSE]

\* The outcomes of the calls set_cookies makes: read_json, add_cookies, the
\* probe's and save_state.
SetCookiesEnv ==
    {e \in [read : {"missing", "invalid", "ok"}, raw : CookieLists \cup {<<>>},
            add : BOOLEAN, probe : ProbeEnv, save : BOOLEAN] :
        /\ e.read = "ok" <=> e.raw # <<>>
        /\ e.read # "ok" => ~e.add
        /\ ~e.add => e.probe = NoProbeEnv
        /\ (~e.probe.open \/ ~e.probe.close) => ~e.save}

\* utils.normalize_cookies: each exported cookie becomes one cookie of the
\* context's schema.
normalize_cookies(raw) == [i \in 1..Len(raw) |-> raw[i]]

Range(f) == {f[i] : i \in DOMAIN f}

\* The body of set_cookies, lines 130-133.
set_cookies_body(s, e) ==
    LET log1 == <<Ev("read_json", IF e.read = "ok" THEN "ok" ELSE "raise")>>
        norm == normalize_cookies(e.raw)
        log2 == log1 \o <<Ev("add_cookies", Res(e.add))>>
        c2 == s.cookies \cup Range(norm)
        p == set_profile([s EXCEPT !.cookies = c2], e.probe)
        log3 == log2 \o <<Ev("_set_profile", Res(p.exc = "none"))>> \o p.log
        log4 == log3 \o <<Ev("save_state", Res(e.save))>>
    IN  IF e.read # "ok"
        THEN [Raise(s, "Raw") EXCEPT !.log = log1]
        ELSE IF ~e.add
        THEN [Raise(s, "Raw") EXCEPT !.log = log2]
        ELSE IF p.exc # "none"
        THEN [p EXCEPT !.log = log3]
        ELSE [p EXCEPT !.log = log4,
                       !.exc = IF e.save THEN "none" ELSE "Raw",
                       !.file = IF e.save THEN save_state(c2) ELSE s.file]

\* @try_except_request async def set_cookies, lines 128-129.
set_cookies(s, e) == try_except_request(set_cookies_body(s, e))

\* ------------------------------------------------------------ Start / Stop
StartSteps == <<"start", "launch", "new_context", "apply_stealth", "load_state">>

\* failAt is the step of StartSteps that raises; NoFail: none does.
NoFail(steps) == Len(steps) + 1

StartEnv ==
    {e \in [failAt : 1..NoFail(StartSteps), probe : ProbeEnv] :
        e.failAt # NoFail(StartSteps) => e.probe = NoProbeEnv}

\* What the probe did inside a call: whether it ran, what it raised to its
\* caller, the flag before and after it, its page and the greeting it read.
NoProbe == [ran |-> FALSE, exc |-> "none", before |-> FALSE, after |-> FALSE,
            page |-> "none", text |-> "none"]

ProbeOf(s, p, e) ==
    [ran |-> TRUE, exc |-> p.exc, before |-> s.auth, after |-> p.auth,
     page |-> p.page,
     text |-> IF e.open /\ e.goto THEN e.text ELSE "none"]

\* __aenter__, lines 25-41.  The steps before e.failAt succeed, it and the
\* steps after it create nothing.
aenter(s, e) ==
    LET failed == e.failAt # NoFail(StartSteps)
        n == IF failed THEN e.failAt ELSE Len(StartSteps)
        log1 == [i \in 1..n |-> Ev(StartSteps[i], Res(i # e.failAt))]
        done(i) == e.failAt > i
        c1 == IF done(5) THEN load_state({}, s.file) ELSE {}
        p == set_profile([s EXCEPT !.cookies = c1], e.probe)
    IN  IF failed
        THEN [exc |-> "Raw", auth |-> s.auth, file |-> s.file, cookies |-> c1,
              log |-> log1, got |-> <<>>, dls |-> <<>>, page |-> "none", ret |-> NoRet,
              driver |-> done(1), browser |-> done(2), context |-> done(3),
              probe |-> NoProbe]
        ELSE [exc |-> p.exc, auth |-> p.auth, file |-> p.file, cookies |-> c1,
              log |-> log1 \o <<Ev("_set_profile", Res(p.exc = "none"))>> \o p.log,
              got |-> <<>>, dls |-> <<>>, page |-> p.page, ret |-> NoRet,
              driver |-> TRUE, browser |-> TRUE, context |-> TRUE,
              probe |-> ProbeOf(s, p, e.probe)]

StopSteps == <<"context.close", "browser.close", "playwright.stop">>

\* __aexit__, lines 43-46.  failAt is the close that raises; the exception
\* leaves __aexit__ at once.
aexit(failAt) ==
    LET failed == failAt # NoFail(StopSteps)
        n == IF failed THEN failAt ELSE Len(StopSteps)
        done(i) == failAt > i
    IN  [exc |-> IF failed THEN "Raw" ELSE "none",
         log |-> [i \in 1..n |-> Ev(StopSteps[i], Res(i # failAt))],
         context |-> done(1), browser |-> done(2), driver |-> done(3)]

\* ------------------------------------------------------------------ state
NoURL == <<>>

Self == [auth |-> authenticated, file |-> sessionFile, cookies |-> cookies]

\* The record of the call that just ended.
Call(op, url, opts, r, probe) ==
    [op |-> op, url |-> url, opts |-> opts, authBefore |-> authenticated,
     fileBefore |-> sessionFile,
     exc |-> r.exc, log |-> r.log, got |-> r.got, dls |-> r.dls,
     page |-> r.page,
     ret |-> r.ret, probe |-> probe]

\* __init__, lines 21-23; the session file is whatever an earlier run left.
Init ==
    /\ phase = "new"
    /\ authenticated = FALSE
    /\ driver = "none"
    /\ browser = "none"
    /\ context = "none"
    /\ cookies = {}
    /\ sessionFile \in SessionFiles
    /\ loggedOut = FALSE
    /\ last = Call("init", NoURL, NoOpts, Raise([auth |-> FALSE, file |-> sessionFile,
                                          cookies |-> {}], "none"), NoProbe)

\* The facade's fields after a method with outcome r.
Apply(op, url, opts, r, probe) ==
    /\ authenticated' = r.auth
    /\ sessionFile' = r.file
    /\ cookies' = r.cookies
    /\ last' = Call(op, url, opts, r, probe)

Start ==
    /\ phase = "new"
    /\ \E e \in StartEnv :
         LET r == aenter(Self, e)
         IN  /\ Apply("start", NoURL, NoOpts, r, r.probe)
             /\ driver' = IF r.driver THEN "open" ELSE "none"
             /\ browser' = IF r.browser THEN "open" ELSE "none"
             /\ context' = IF r.context THEN "open" ELSE "none"
             /\ phase' = IF r.exc = "none" THEN "ready" ELSE "failed"
    /\ UNCHANGED loggedOut

Stop ==
    /\ phase = "ready"
    /\ \E failAt \in 1..NoFail(StopSteps) :
         LET r == aexit(failAt)
         IN  /\ context' = IF r.context THEN "closed" ELSE "open"
             /\ browser' = IF r.browser THEN "closed" ELSE "open"
             /\ driver' = IF r.driver THEN "closed" ELSE "open"
             /\ last' = [Call("stop", NoURL, NoOpts, Raise(Self, r.exc), NoProbe)
                           EXCEPT !.log = r.log]
             /\ phase' = "stopped"
             /\ UNCHANGED <<authenticated, sessionFile, cookies, loggedOut>>

Login ==
    /\ phase = "ready"
    /\ \E e \in LoginEnv : Apply("login", NoURL, NoOpts, login(Self, e), NoProbe)
    /\ UNCHANGED <<phase, driver, browser, context, loggedOut>>

Logout ==
    /\ phase = "ready"
    /\ \E e \in LogoutEnv(Self) :
         /\ Apply("logout", NoURL, NoOpts, logout(Self, e), NoProbe)
         /\ loggedOut' = (loggedOut \/ (sessionFile.exists /\ e /\ authenticated))
    /\ UNCHANGED <<phase, driver, browser, context>>

FetchUnit ==
    /\ phase = "ready"
    /\ \E url \in URLs, e \in FetchUnitEnv :
         Apply("fetch_unit", url, NoOpts, fetch_unit(Self, url, e), NoProbe)
    /\ UNCHANGED <<phase, driver, browser, context, loggedOut>>

FetchCourse ==
    /\ phase = "ready"
    /\ \E url \in URLs, e \in FetchCourseEnv :
         Apply("fetch_course", url, NoOpts, fetch_course(Self, url, e), NoProbe)
    /\ UNCHANGED <<phase, driver, browser, context, loggedOut>>

Download ==
    /\ phase = "ready"
    /\ \E url \in URLs, opts \in Options :
         \E e \in DownloadEnv(url) :
           Apply("download", url, opts, download(Self, url, opts, e), NoProbe)
    /\ UNCHANGED <<phase, driver, browser, context, loggedOut>>

SetCookies ==
    /\ phase = "ready"
    /\ \E e \in SetCookiesEnv :
         LET r == set_cookies(Self, e)
             ran == e.read = "ok" /\ e.add
             s2 == [Self EXCEPT !.cookies = r.cookies]
         IN  Apply("set_cookies", NoURL, NoOpts, r,
                   IF ran THEN ProbeOf(s2, set_profile(s2, e.probe), e.probe)
                   ELSE NoProbe)
    /\ UNCHANGED <<phase, driver, browser, context, loggedOut>>

Next ==
    \/ Start
    \/ Stop
    \/ Login
    \/ Logout
    \/ FetchUnit
    \/ FetchCourse
    \/ Download
    \/ SetCookies

Spec == Init /\ [][Next]_vars

\* ------------------------------------------------------------ the claims
GatedOps == {"fetch_unit", "fetch_course", "download"}

IsUnitURL(url) == is_video(url) \/ is_lecture(url) \/ is_quiz(url)

\* The positions of the log where call was made.
At(call) == {i \in DOMAIN last.log : last.log[i].call = call}

Collectors == {"collectors.fetch_unit", "collectors.fetch_course"}

Downloaders == {"download_unit", "download_course"}

\* C1: a gated operation called while Authenticated is false fails with the
\* authentication-required error and makes no collector, downloader or
\* browser/page call.
C1_AuthGate ==
    (last.op \in GatedOps /\ ~last.authBefore) =>
        /\ last.exc = "AuthRequired"
        /\ last.log = <<>>
        /\ last.got = <<>>
        /\ last.dls = <<>>
        /\ last.page = "none"

C1_Witness ==
    /\ last.op = "fetch_unit"
    /\ is_video(last.url)
    /\ ~last.authBefore
    /\ last.exc = "AuthRequired"

\* C2: when Start fails after the driver was started, no created resource
\* (context, browser, driver) is still open.
C2_StartFailureReleases ==
    phase = "failed" =>
        /\ driver # "open"
        /\ browser # "open"
        /\ context # "open"

\* C3: Stop closes the context, the browser and the driver in that order,
\* whatever a close raises, and raises nothing to its caller.
C3_StopBestEffort ==
    last.op = "stop" =>
        /\ last.exc = "none"
        /\ [i \in DOMAIN last.log |-> last.log[i].call] = StopSteps
        /\ context # "open" \/ last.log[1].res = "raise"
        /\ browser # "open" \/ last.log[2].res = "raise"
        /\ driver # "open" \/ last.log[3].res = "raise"

\* The login of the last call did not complete: the greeting was not seen, or
\* a call of the flow before page.close raised.
LoginIncomplete ==
    /\ last.op = "login"
    /\ \/ \A i \in At("wait_for_selector") : last.log[i].res # "ok"
       \/ \E i \in At("save_state") : last.log[i].res = "raise"

PageCloseRaised == \E i \in At("page.close") : last.log[i].res = "raise"

\* C4: a login that does not complete (no greeting within the timeout, or an
\* exception in the flow, the page failing to open or to navigate included)
\* raises LoginError, and the page it opened is closed.
C4_LoginFailure ==
    (LoginIncomplete /\ ~PageCloseRaised) =>
        /\ last.exc = "LoginError"
        /\ last.page # "open"

\* C5: a login that returns normally leaves Authenticated true, the session
\* state in the session file and its page closed; and a login writes the
\* session state only after it saw the greeting.
C5_LoginSuccess ==
    last.op = "login" =>
        /\ last.exc = "none" =>
             /\ authenticated
             /\ sessionFile = save_state(cookies)
             /\ last.page = "closed"
             /\ \E j \in At("save_state") : last.log[j].res = "ok"
        /\ \A j \in At("save_state") :
             \E i \in At("wait_for_selector") : i < j /\ last.log[i].res = "ok"
        /\ sessionFile # last.fileBefore =>
             \E j \in At("save_state") : last.log[j].res = "ok"

C5_Witness ==
    /\ last.op = "login"
    /\ last.exc = "none"
    /\ ~last.authBefore
    /\ authenticated
    /\ sessionFile # last.fileBefore

\* C6: the probe never raises to its caller, changes Authenticated only to
\* true and only after reading a non-empty greeting, and leaves no page open.
C6_ProbeNeverRaises ==
    (last.probe.ran /\ ~PageCloseRaised) =>
        /\ last.probe.exc = "none"
        /\ last.probe.page # "open"
        /\ last.probe.after # last.probe.before =>
             last.probe.after /\ last.probe.text = "text"

\* The extension download gives the file of a unit.
ExtensionOf(unit) == IF unit.type = "video" THEN MP4 ELSE MHTML

\* C7: an authenticated download of a video, lecture or quiz URL fetches the
\* unit once and makes no course fetch and no course download; when the unit
\* was fetched it then invokes the unit downloader once, with that unit, the
\* file <slug>.mp4 for a video and <slug>.mhtml otherwise, and the caller's
\* options; when the fetch raised it invokes no downloader.
C7_UnitDispatch ==
    (last.op = "download" /\ last.authBefore /\ IsUnitURL(last.url)) =>
        /\ At("collectors.fetch_unit") = {1}
        /\ At("collectors.fetch_course") = {}
        /\ At("download_course") = {}
        /\ \A i \in DOMAIN last.dls : last.dls[i].fn = "download_unit"
        /\ last.log[1].res = "ok" =>
             /\ At("download_unit") = {2}
             /\ Len(last.got) = 1
             /\ Len(last.dls) = 1
             /\ last.dls[1].rec = last.got[1]
             /\ last.dls[1].dest = last.got[1].slug \o ExtensionOf(last.got[1])
             /\ last.dls[1].opts = last.opts
        /\ last.log[1].res # "ok" =>
             /\ At("download_unit") = {}
             /\ last.dls = <<>>

C7_Witness ==
    /\ last.op = "download"
    /\ last.authBefore
    /\ is_video(last.url)
    /\ last.opts # NoOpts
    /\ last.exc = "none"
    /\ Len(last.dls) = 1
    /\ last.dls[1].rec.type = "video"
    /\ last.dls[1].dest = <<"a", ".", "m", "p", "4">>

\* C8: an authenticated download of a course URL fetches the course once and
\* makes no unit fetch and no unit download; when the course was fetched it
\* then invokes the course downloader once, with that course and the caller's
\* options; when the fetch raised it invokes no downloader.
C8_CourseDispatch ==
    (last.op = "download" /\ last.authBefore /\ ~IsUnitURL(last.url)
       /\ is_course(last.url)) =>
        /\ At("collectors.fetch_course") = {1}
        /\ At("collectors.fetch_unit") = {}
        /\ At("download_unit") = {}
        /\ \A i \in DOMAIN last.dls : last.dls[i].fn = "download_course"
        /\ last.log[1].res = "ok" =>
             /\ At("download_course") = {2}
             /\ Len(last.got) = 1
             /\ Len(last.dls) = 1
             /\ last.dls[1].rec = last.got[1]
             /\ last.dls[1].opts = last.opts
        /\ last.log[1].res # "ok" =>
             /\ At("download_course") = {}
             /\ last.dls = <<>>

C8_Witness ==
    /\ last.op = "download"
    /\ last.authBefore
    /\ last.url = <<"courses", "abc">>
    /\ last.exc = "none"
    /\ [i \in DOMAIN last.log |-> last.log[i].call]
         = <<"collectors.fetch_course", "download_course">>
    /\ Len(last.dls) = 1

C10_NoPartialSuccess ==
    last.op = "download" =>
        /\ \A j \in At("download_unit") :
             j > 1 /\ last.log[j - 1] = Ev("collectors.fetch_unit", "ok")
        /\ \A j \in At("download_course") :
             j > 1 /\ last.log[j - 1] = Ev("collectors.fetch_course", "ok")
        /\ Len(last.dls) = Cardinality(At("download_unit") \cup At("download_course"))
        /\ \A i \in DOMAIN last.log :
             (last.log[i].call \in Collectors /\ last.log[i].res = "raise") =>
                 /\ last.dls = <<>>
                 /\ last.exc # "none"
        /\ \A j \in DOMAIN last.log :
             (last.log[j].call \in Downloaders /\ last.log[j].res = "raise") =>
                 last.exc # "none"
        /\ last.exc = "none" =>
             /\ Len(last.log) = 2
             /\ last.log[1].call \in Collectors /\ last.log[1].res = "ok"
             /\ last.log[2].call \in Downloaders /\ last.log[2].res = "ok"

C10_Witness ==
    /\ last.op = "download"
    /\ last.authBefore
    /\ last.exc = "RequestFailed"
    /\ Len(last.log) = 2
    /\ last.log[1] = Ev("collectors.fetch_unit", "ok")
    /\ last.log[2] = Ev("download_unit", "raise")

\* C11: logout removes the session file when it exists (unlink returning),
\* does not raise when the file is absent, and leaves Authenticated, the
\* context and its cookies, the browser and the driver as they were.
C11_Logout ==
    [][Logout =>
         /\ last'.op = "logout"
         /\ authenticated' = authenticated
         /\ cookies' = cookies
         /\ context' = context
         /\ browser' = browser
         /\ driver' = driver
         /\ last'.page = "none"
         /\ last'.log[1].res = "ok" =>
              /\ ~sessionFile'.exists
              /\ last'.exc = "none"
         /\ ~sessionFile.exists =>
              /\ ~sessionFile'.exists
              /\ last'.exc = "none"]_vars

C11_Witness ==
    /\ last.op = "logout"
    /\ last.exc = "none"
    /\ last.fileBefore.exists
    /\ ~sessionFile.exists
    /\ context = "open"

\* C12: set_cookies with a well-formed cookie file installs the cookies,
\* then runs the probe, then writes the session state, whether or not the
\* probe set Authenticated; with a missing or invalid file it fails and does
\* none of the three.
C12_SetCookiesOrder ==
    last.op = "set_cookies" =>
        /\ (/\ last.log[1] = Ev("read_json", "ok")
            /\ \E i \in At("add_cookies") : last.log[i].res = "ok"
            /\ ~PageCloseRaised) =>
               /\ At("add_cookies") = {2}
               /\ At("_set_profile") = {3}
               /\ last.probe.ran
               /\ At("save_state") = {Len(last.log)}
               /\ Len(last.log) > 3
        /\ last.log[1] = Ev("read_json", "raise") =>
               /\ last.exc # "none"
               /\ Len(last.log) = 1
               /\ ~last.probe.ran
               /\ sessionFile = last.fileBefore

\* The operations of the facade that touch the network or the browser.
NetworkOps == {"start", "login", "fetch_unit", "fetch_course", "download",
               "set_cookies"}

\* C13: a network operation lets only the facade's own error kinds reach its
\* caller.
C13_OwnErrorsOnly ==
    last.op \in NetworkOps => last.exc \in DomainErrors \cup {"none"}

\* C14: a login that ends by raising leaves Authenticated as it was before
\* the call.
C14_FailedLoginKeepsFlag ==
    (last.op = "login" /\ last.exc # "none" /\ ~PageCloseRaised) =>
        authenticated = last.authBefore

\* C15: Authenticated is false at construction and, once true, stays true
\* under every operation; a gated operation called after a logout removed
\* the session file of an authenticated instance still passes the gate.
C15_FlagMonotonic ==
    /\ [](phase = "new" => ~authenticated)
    /\ [][authenticated => authenticated']_vars
    /\ []((loggedOut /\ last.op \in GatedOps) =>
            /\ last.authBefore
            /\ last.exc # "AuthRequired")

C15_Witness ==
    /\ loggedOut
    /\ ~sessionFile.exists
    /\ last.op = "download"
    /\ is_course(last.url)
    /\ last.exc = "none"
    /\ authenticated

====
